---------------------------- MODULE Spec2Model ----------------------------
(***************************************************************************)
(* The actuarial dashboard page (src/unnamed/part_000, component           *)
(* Dashboard) as a state machine.                                          *)
(*                                                                         *)
(* State: the component's useState slots.  One action per event handler    *)
(* (a click, a change) and one per settlement of an outstanding fetch.     *)
(* A handler runs to completion together with the render it causes and     *)
(* the "auto-fetch on tab switch" effect of that render, because React     *)
(* flushes the effects of a discrete event before the next event is        *)
(* handled.  An async function runs synchronously up to its first await    *)
(* (the fetch is issued inside the handler's step); everything after the   *)
(* await is the Settle action of that request.                             *)
(*                                                                         *)
(* Scaling: rates are in thousandths (0.07 is 70); money is in units of    *)
(* 1e7, so that x / 1e9 is x / 100.  apiOnline is display-only and is not  *)
(* modelled.                                                               *)
(*                                                                         *)
(* The assistant chat of the Actuary view (component ChatBox,              *)
(* src/frontend/tailwind.config.js:22-99) keeps its own state; it is the   *)
(* variable chat and has a specification of its own, SpecChat.             *)
(***************************************************************************)
EXTENDS Integers, Sequences, FiniteSets, TLC

VARIABLES
    activeTab,      \* part_000:19
    config,         \* part_000:20
    dataLoaded,     \* part_000:21
    dataStats,      \* part_000:22
    dataSample,     \* part_000:23
    data,           \* part_000:26
    loading,        \* part_000:27
    error,          \* part_000:28   <<>> is null, <<m>> the message m
    metrics,        \* part_000:30
    mcData,         \* part_000:32
    mcLoading,      \* part_000:33
    mlData,         \* part_000:34
    mlLoading,      \* part_000:35
    report,         \* part_000:36
    reportLoading,  \* part_000:37
    net,            \* outstanding fetches, per endpoint, in the order issued
    crashed,        \* a render threw: the component tree is unmounted
    last,           \* history: the event handled last
    scen,           \* history: progress along scenario A
    clicks,         \* history: the number of user events handled
    budget,         \* the number of user events this run may handle
    chat            \* ChatBox: messages, input, loading, outstanding calls

vars == <<activeTab, config, dataLoaded, dataStats, dataSample, data, loading,
          error, metrics, mcData, mcLoading, mlData, mlLoading, report,
          reportLoading, net, crashed, last, scen, clicks, budget, chat>>

(***************************************************************************)
(* Bounds of the model.                                                    *)
(***************************************************************************)
\* outstanding requests, all endpoints together
MaxInFlight == 2
\* user events (clicks, changes) in one run
MaxClicks == 4
\* user events in one run of scenario A
MaxScenarioClicks == 5
\* user events in one run checked for liveness
MaxLiveClicks == 3
\* messages in the chat log, outstanding answers counted in
MaxChatMessages == 5

(***************************************************************************)
(* Values.                                                                 *)
(***************************************************************************)
TabIds == {"import", "overview", "solvency", "risk", "actuary", "reports", "config"}

AnalysisKinds == {"simulate", "monte-carlo", "ml", "report"}
ImportKinds == {"sample-data", "upload"}
Endpoints == AnalysisKinds \cup ImportKinds

\* JavaScript null and undefined, where a slot otherwise holds an object.
Null == [js |-> "null"]
Undefined == [js |-> "undefined"]
EmptyArray == [js |-> "array", of |-> 0]
\* result.rows of a body that has no rows field
UndefinedRows == -1

Truthy(v) == v # Null /\ v # Undefined

DEFAULT_CONFIG ==
    [wage_inflation |-> 70, medical_inflation |-> 120,
     investment_return_rate |-> 100, admin_expense_pct |-> 40,
     projection_years |-> 10, population_size |-> 1000]

\* The four preset buttons (part_000:523-534).
PresetNames == {"Base Case", "Stress Test", "Optimistic", "Long Term"}

Preset(p) ==
    CASE p = "Base Case" -> DEFAULT_CONFIG
      [] p = "Stress Test" ->
            [DEFAULT_CONFIG EXCEPT !.medical_inflation = 200, !.wage_inflation = 50]
      [] p = "Optimistic" ->
            [DEFAULT_CONFIG EXCEPT !.investment_return_rate = 150, !.admin_expense_pct = 20]
      [] p = "Long Term" ->
            [DEFAULT_CONFIG EXCEPT !.projection_years = 30, !.population_size = 5000]

\* Positions the sliders and selects are moved to: a few of the values the
\* controls offer (part_000:490-506).
ControlFields == {"wage_inflation", "medical_inflation", "investment_return_rate",
                  "admin_expense_pct", "projection_years", "population_size"}

\* The values each control offers: min..max of the sliders (in thousandths)
\* and the options of the selects (part_000:490-505).
ControlDomain(f) ==
    CASE f = "wage_inflation" -> 10..200
      [] f = "medical_inflation" -> 10..300
      [] f = "investment_return_rate" -> 10..200
      [] f = "admin_expense_pct" -> 10..100
      [] f = "projection_years" -> {5, 10, 15, 20, 25, 30}
      [] f = "population_size" -> {500, 1000, 2000, 5000, 10000}

ControlChoices(f) ==
    CASE f = "wage_inflation" -> {10}
      [] f = "medical_inflation" -> {300}
      [] f = "investment_return_rate" -> {10}
      [] f = "admin_expense_pct" -> {100}
      [] f = "projection_years" -> {5}
      [] f = "population_size" -> {2000}

(***************************************************************************)
(* What the service may answer.  A response is a transport failure (fetch  *)
(* rejects) or an HTTP response with a status class and a body; a body is  *)
(* not JSON (res.json() rejects) or a JSON object.                         *)
(***************************************************************************)
NetErr == [t |-> "neterr"]
Http(ok, body) == [t |-> "http", ok |-> ok, body |-> body]
NonJson == [js |-> "nonjson"]

Details == {"missing column MonthlyWage"}
ErrorBody(d) == [js |-> "object", detail |-> d]
BareErrorBody == [js |-> "object"]

\* Field access as JavaScript does it: undefined when the field is absent.
Field(b, f) == IF f \in DOMAIN b THEN b[f] ELSE Undefined
Rows(b) == IF "rows" \in DOMAIN b THEN b.rows ELSE UndefinedRows

PayloadIds == {1, 2}

Statistics(i) == [js |-> "object", avg_age |-> 30 + i]
SampleRows(i) == [js |-> "array", of |-> i]
DatasetBody(i, n) ==
    [js |-> "object", rows |-> n, statistics |-> Statistics(i), sample |-> SampleRows(i)]

\* Row counts of the files uploaded.
UploadRows == {200}

\* Two projections the service may return, and the empty one.
ProjectionsA ==
    << [Year |-> 1, Total_Revenue |-> 300, Total_Expenditure |-> 200,
        Reserve_Fund |-> 125, Risk_Flags |-> <<>>],
       [Year |-> 2, Total_Revenue |-> 310, Total_Expenditure |-> 400,
        Reserve_Fund |-> 35, Risk_Flags |-> <<"DEFICIT", "LOW_RESERVE">>] >>

ProjectionsB ==
    << [Year |-> 1, Total_Revenue |-> 500, Total_Expenditure |-> 300,
        Reserve_Fund |-> 260, Risk_Flags |-> <<>>] >>

SimulateBody(p) == [js |-> "object", projections |-> p]
MonteCarloBody(i) == [js |-> "object", statistics |-> [n_simulations |-> i]]
MlBody(i) == [js |-> "object", ml_status |-> "trained", insights |-> [high_risk_count |-> i]]
ReportBody(i) ==
    [js |-> "object", report_title |-> "Actuarial Report",
     executive_summary |-> [total_risk_flags |-> i]]

TransportFailure == {NetErr}
Unparsable == {Http(FALSE, NonJson)}
Rejections == {Http(FALSE, ErrorBody(d)) : d \in Details}

Responses(k, req) ==
    CASE k = "sample-data" ->
            TransportFailure \cup Rejections
            \cup {Http(TRUE, DatasetBody(i, req.body.size)) : i \in PayloadIds}
      [] k = "upload" ->
            TransportFailure \cup Rejections
            \cup {Http(FALSE, BareErrorBody)}
            \cup {Http(TRUE, DatasetBody(1, n)) : n \in UploadRows}
      [] k = "simulate" ->
            TransportFailure \cup Unparsable \cup Rejections
            \cup {Http(TRUE, SimulateBody(p)) : p \in {ProjectionsA, ProjectionsB, <<>>}}
      [] k = "monte-carlo" ->
            TransportFailure \cup Rejections
            \cup {Http(TRUE, MonteCarloBody(i)) : i \in PayloadIds}
      [] k = "ml" ->
            TransportFailure \cup Rejections
            \cup {Http(TRUE, MlBody(1))}
      [] k = "report" ->
            TransportFailure \cup Rejections
            \cup {Http(TRUE, ReportBody(1))}

\* err.message of the exceptions the handlers catch.
FetchFailedMessage == "Failed to fetch"
JsonSyntaxMessage == "Unexpected token < in JSON at position 0"
MapOfUndefinedMessage == "Cannot read properties of undefined (reading 'map')"
LastOfEmptyMessage == "Cannot read properties of undefined (reading 'Reserve_Fund')"

\* fetch(...) followed by res.json(): <<>> when either rejects, else <<body>>.
JsonOf(resp) ==
    IF resp.t = "neterr" \/ resp.body = NonJson THEN <<>> ELSE <<resp.body>>

RejectionMessage(resp) ==
    IF resp.t = "neterr" THEN FetchFailedMessage ELSE JsonSyntaxMessage

(***************************************************************************)
(* Number formatting.                                                      *)
(***************************************************************************)
\* n / d rounded to the nearest integer, halves away from zero (toFixed).
RoundDiv(n, d) ==
    LET a == IF n < 0 THEN 0 - n ELSE n
        q == (2 * a + d) \div (2 * d)
    IN  IF n < 0 THEN 0 - q ELSE q

\* (x / 1e9).toFixed(1) + "B", x in units of 1e7: the number of tenths.
ReserveText(x) == [text |-> "fixed1B", tenths |-> RoundDiv(x, 10)]

\* (rev / exp).toFixed(2): the number of hundredths; division by zero gives
\* "Infinity", "-Infinity" or "NaN".
RatioText(rev, exp) ==
    IF exp = 0
    THEN [text |-> IF rev = 0 THEN "NaN" ELSE IF rev > 0 THEN "Infinity" ELSE "-Infinity",
          hundredths |-> 0]
    ELSE [text |-> "fixed2", hundredths |-> RoundDiv(100 * rev, exp)]

InitialMetrics ==
    [reserve |-> [text |-> "dash", tenths |-> 0],
     solvencyRatio |-> [text |-> "dash", hundredths |-> 0],
     riskCount |-> 0]

\* A map that yields the entries last to first.
ChartSeriesReversed(projections) ==
    [i \in 1..Len(projections) |->
        LET p == projections[Len(projections) + 1 - i]
        IN  [name |-> <<"Y", p.Year>>,
             revenue |-> p.Total_Revenue,
             expenditure |-> p.Total_Expenditure,
             reserve |-> p.Reserve_Fund]]

\* result.projections.map(...) of runSimulation (part_000:85-88).
ChartSeries(projections) ==
    [i \in 1..Len(projections) |->
        [name |-> <<"Y", projections[i].Year>>,
         revenue |-> projections[i].Total_Revenue,
         expenditure |-> projections[i].Total_Expenditure,
         reserve |-> projections[i].Reserve_Fund]]

MetricsOf(lastEntry) ==
    [reserve |-> ReserveText(lastEntry.Reserve_Fund),
     solvencyRatio |-> RatioText(lastEntry.Total_Revenue, lastEntry.Total_Expenditure),
     riskCount |-> Len(lastEntry.Risk_Flags)]

(***************************************************************************)
(* The assistant chat (ChatBox).  A text is a string given by its          *)
(* characters, so that trim() is computed.                                 *)
(***************************************************************************)
Str(chars) == [js |-> "string", chars |-> chars]

Whitespace == {" ", "\t", "\n"}

RECURSIVE TrimStart(_)
TrimStart(chars) ==
    IF chars # <<>> /\ Head(chars) \in Whitespace THEN TrimStart(Tail(chars)) ELSE chars

RECURSIVE TrimEnd(_)
TrimEnd(chars) ==
    IF chars # <<>> /\ chars[Len(chars)] \in Whitespace
    THEN TrimEnd(SubSeq(chars, 1, Len(chars) - 1))
    ELSE chars

\* input.trim(), tailwind.config.js:34
Trim(chars) == TrimEnd(TrimStart(chars))

\* What the operator may have typed.
Inputs == {<<>>, <<" ", " ">>, <<"q">>, <<" ", "r", " ">>}

WelcomeMessage ==
    [role |-> "ai", text |-> Str(<<"Welcome, Executive. I am your Gemini Actuary.">>)]

ConnectivityError == Str(<<"Error connecting to the intelligence layer.">>)

AnswerBody(i) ==
    [js |-> "object", response |-> Str(<<IF i = 1 THEN "answer one" ELSE "answer two">>)]

\* What POST /ask-ai may be answered with.
AskAiResponses ==
    TransportFailure \cup Unparsable \cup Rejections
    \cup {Http(TRUE, AnswerBody(i)) : i \in PayloadIds}

\* ChatBox's useState slots, and its outstanding /ask-ai calls.
ChatInitial ==
    [messages |-> <<WelcomeMessage>>, input |-> <<>>, loading |-> FALSE, net |-> <<>>]

\* askAI up to the await, tailwind.config.js:33-48
askAI(c) ==
    IF Trim(c.input) = <<>> THEN c
    ELSE [c EXCEPT !.input = <<>>,
                   !.messages = Append(@, [role |-> "user", text |-> Str(c.input)]),
                   !.loading = TRUE,
                   !.net = Append(@, [query |-> Str(c.input)])]

\* askAI after the await, tailwind.config.js:49-57
settleAskAI(c, i, resp) ==
    LET text == IF JsonOf(resp) = <<>> THEN ConnectivityError
                ELSE Field(resp.body, "response")
    IN  [c EXCEPT !.messages = Append(@, [role |-> "ai", text |-> text]),
                  !.loading = FALSE,
                  !.net = [j \in 1..(Len(@) - 1) |-> IF j < i THEN @[j] ELSE @[j + 1]]]

(***************************************************************************)
(* The component's state as one record, so that a handler is a function    *)
(* from state to state and a step composes the handler, the render and     *)
(* the effect.                                                             *)
(***************************************************************************)
Cur ==
    [activeTab |-> activeTab, config |-> config, dataLoaded |-> dataLoaded,
     dataStats |-> dataStats, dataSample |-> dataSample, data |-> data,
     loading |-> loading, error |-> error, metrics |-> metrics,
     mcData |-> mcData, mcLoading |-> mcLoading, mlData |-> mlData,
     mlLoading |-> mlLoading, report |-> report, reportLoading |-> reportLoading,
     net |-> net]

InitialState ==
    [activeTab |-> "import", config |-> DEFAULT_CONFIG, dataLoaded |-> FALSE,
     dataStats |-> Null, dataSample |-> EmptyArray, data |-> <<>>,
     loading |-> FALSE, error |-> <<>>, metrics |-> InitialMetrics,
     mcData |-> Null, mcLoading |-> FALSE, mlData |-> Null,
     mlLoading |-> FALSE, report |-> Null, reportLoading |-> FALSE,
     net |-> [k \in Endpoints |-> <<>>]]

Outstanding(s) ==
    Len(s.net["sample-data"]) + Len(s.net["upload"]) + Len(s.net["simulate"])
    + Len(s.net["monte-carlo"]) + Len(s.net["ml"]) + Len(s.net["report"])

\* fetch(...): the request joins the outstanding ones.  forced and superseded
\* are history: whether the request is the re-fetch of a clear-then-re-fetch
\* handler, and whether such a request issued after it has been answered.
Issue(s, k, body) ==
    [s EXCEPT !.net[k] = Append(@, [body |-> body, forced |-> FALSE, superseded |-> FALSE])]

\* The request issued last on endpoint k is the re-fetch of a forced refresh.
Forced(s, k) == [s EXCEPT !.net[k] = [@ EXCEPT ![Len(@)] = [@ EXCEPT !.forced = TRUE]]]

(***************************************************************************)
(* The async functions up to their first await.                            *)
(***************************************************************************)
\* loadSampleData(size = 1000), part_000:40-43
loadSampleData(s, size) ==
    Issue([s EXCEPT !.loading = TRUE, !.error = <<>>], "sample-data",
          [size |-> IF size = UndefinedRows THEN 1000 ELSE size])

\* handleFileUpload, part_000:54-61; file is <<>> when the dialog was cancelled
handleFileUpload(s, file) ==
    IF file = <<>> THEN s
    ELSE Issue([s EXCEPT !.loading = TRUE, !.error = <<>>], "upload", [file |-> file[1]])

\* runSimulation(cfg = config), part_000:77-83
\* A simulation run that posts the default config whatever the operator chose.
runSimulationWithDefaults(s, cfg) ==
    Issue([s EXCEPT !.loading = TRUE, !.error = <<>>], "simulate", DEFAULT_CONFIG)

runSimulation(s, cfg) ==
    Issue([s EXCEPT !.loading = TRUE, !.error = <<>>], "simulate", cfg)

\* A runMonteCarlo that sends the config as it is.
runMonteCarloWholeConfig(s) ==
    Issue([s EXCEPT !.mcLoading = TRUE], "monte-carlo", s.config)

\* runMonteCarlo, part_000:101-107
runMonteCarlo(s) ==
    Issue([s EXCEPT !.mcLoading = TRUE], "monte-carlo",
          [s.config EXCEPT !.population_size = 500])

\* runML, part_000:113-116
runML(s) ==
    Issue([s EXCEPT !.mlLoading = TRUE], "ml",
          [population_size |-> s.config.population_size])

\* runReport, part_000:122-128
runReport(s) ==
    Issue([s EXCEPT !.reportLoading = TRUE], "report", s.config)

(***************************************************************************)
(* The async functions after the await: what a response does.              *)
(***************************************************************************)
\* The success path shared by both imports (part_000:45-48 and 67-70).
\* A dataset store that rebuilds the config from the defaults.
StoreDatasetOverDefaults(s, result) ==
    [s EXCEPT !.dataStats = Field(result, "statistics"),
              !.dataSample = Field(result, "sample"),
              !.config = [DEFAULT_CONFIG EXCEPT !.population_size = Rows(result)],
              !.dataLoaded = TRUE]

StoreDataset(s, result) ==
    [s EXCEPT !.dataStats = Field(result, "statistics"),
              !.dataSample = Field(result, "sample"),
              !.config = [@ EXCEPT !.population_size = Rows(result)],
              !.dataLoaded = TRUE]

\* A loadSampleData whose failure unloads the dataset.
settleSampleDataUnloading(s, resp) ==
    LET r == IF JsonOf(resp) = <<>>
             THEN [s EXCEPT !.error = <<RejectionMessage(resp)>>,
                            !.dataLoaded = FALSE]
             ELSE StoreDataset(s, JsonOf(resp)[1])
    IN  [r EXCEPT !.loading = FALSE]

\* loadSampleData, part_000:43-51
settleSampleData(s, resp) ==
    LET r == IF JsonOf(resp) = <<>>
             THEN [s EXCEPT !.error = <<RejectionMessage(resp)>>]
             ELSE StoreDataset(s, JsonOf(resp)[1])
    IN  [r EXCEPT !.loading = FALSE]

\* err.detail || 'Upload failed', part_000:64
\* An upload handler that ignores the detail of the rejection.
GenericUploadErrorMessage(err) == "Upload failed"

UploadErrorMessage(err) ==
    IF "detail" \in DOMAIN err /\ err.detail # "" THEN err.detail ELSE "Upload failed"

\* handleFileUpload, part_000:61-73
settleUpload(s, resp) ==
    LET r == IF JsonOf(resp) = <<>>
             THEN [s EXCEPT !.error = <<RejectionMessage(resp)>>]
             ELSE IF ~resp.ok
             THEN [s EXCEPT !.error = <<UploadErrorMessage(resp.body)>>]
             ELSE StoreDataset(s, resp.body)
    IN  [r EXCEPT !.loading = FALSE]

\* runSimulation, part_000:84-98
settleSimulate(s, resp) ==
    LET r == IF JsonOf(resp) = <<>>
             THEN [s EXCEPT !.error = <<RejectionMessage(resp)>>]
             ELSE IF "projections" \notin DOMAIN resp.body
             THEN [s EXCEPT !.error = <<MapOfUndefinedMessage>>]
             ELSE LET projections == resp.body.projections
                  IN  IF Len(projections) = 0
                      THEN [s EXCEPT !.data = ChartSeries(projections),
                                     !.error = <<LastOfEmptyMessage>>]
                      ELSE [s EXCEPT !.data = ChartSeries(projections),
                                     !.metrics = MetricsOf(projections[Len(projections)])]
    IN  [r EXCEPT !.loading = FALSE]

\* runMonteCarlo, part_000:108-110
\* A Monte Carlo continuation that fetches again when the fetch failed.
settleMonteCarloRetrying(s, resp) ==
    IF JsonOf(resp) = <<>>
    THEN runMonteCarlo([s EXCEPT !.error = <<"Monte Carlo failed">>])
    ELSE [s EXCEPT !.mcData = resp.body, !.mcLoading = FALSE]

settleMonteCarlo(s, resp) ==
    LET r == IF JsonOf(resp) = <<>>
             THEN [s EXCEPT !.error = <<"Monte Carlo failed">>]
             ELSE [s EXCEPT !.mcData = resp.body]
    IN  [r EXCEPT !.mcLoading = FALSE]

\* runML, part_000:117-119
settleML(s, resp) ==
    LET r == IF JsonOf(resp) = <<>>
             THEN [s EXCEPT !.error = <<"ML failed">>]
             ELSE [s EXCEPT !.mlData = resp.body]
    IN  [r EXCEPT !.mlLoading = FALSE]

\* runReport, part_000:129-131
settleReport(s, resp) ==
    LET r == IF JsonOf(resp) = <<>>
             THEN [s EXCEPT !.error = <<"Report failed">>]
             ELSE [s EXCEPT !.report = resp.body]
    IN  [r EXCEPT !.reportLoading = FALSE]

settle(s, k, resp) ==
    CASE k = "sample-data" -> settleSampleData(s, resp)
      [] k = "upload" -> settleUpload(s, resp)
      [] k = "simulate" -> settleSimulate(s, resp)
      [] k = "monte-carlo" -> settleMonteCarlo(s, resp)
      [] k = "ml" -> settleML(s, resp)
      [] k = "report" -> settleReport(s, resp)

(***************************************************************************)
(* Render and effect.                                                      *)
(***************************************************************************)
\* The sidebar's disabled flag, part_000:168
\* A sidebar in which no button is ever disabled.
neverDisabled(s, tab) == FALSE

disabled(s, tab) == tab # "import" /\ tab # "config" /\ ~s.dataLoaded

\* An effect that fetches for the view whatever its cache holds.
autoFetchRegardless(s) ==
    IF s.activeTab = "overview" /\ s.dataLoaded THEN runSimulation(s, s.config)
    ELSE IF s.activeTab = "solvency" /\ s.dataLoaded THEN runMonteCarlo(s)
    ELSE IF s.activeTab = "risk" /\ s.dataLoaded THEN runML(s)
    ELSE IF s.activeTab = "reports" /\ s.dataLoaded THEN runReport(s)
    ELSE s

\* An effect that fetches the stochastic simulation for the Risk view and the
\* risk segmentation for the Solvency view.
autoFetchMisrouted(s) ==
    IF s.activeTab = "overview" /\ Len(s.data) = 0 /\ s.dataLoaded
        THEN runSimulation(s, s.config)
    ELSE IF s.activeTab = "solvency" /\ ~Truthy(s.mcData) /\ s.dataLoaded
        THEN runML(s)
    ELSE IF s.activeTab = "risk" /\ ~Truthy(s.mlData) /\ s.dataLoaded
        THEN runMonteCarlo(s)
    ELSE IF s.activeTab = "reports" /\ ~Truthy(s.report) /\ s.dataLoaded
        THEN runReport(s)
    ELSE s

\* The body of the auto-fetch effect, part_000:136-139
autoFetch(s) ==
    IF s.activeTab = "overview" /\ Len(s.data) = 0 /\ s.dataLoaded
        THEN runSimulation(s, s.config)
    ELSE IF s.activeTab = "solvency" /\ ~Truthy(s.mcData) /\ s.dataLoaded
        THEN runMonteCarlo(s)
    ELSE IF s.activeTab = "risk" /\ ~Truthy(s.mlData) /\ s.dataLoaded
        THEN runML(s)
    ELSE IF s.activeTab = "reports" /\ ~Truthy(s.report) /\ s.dataLoaded
        THEN runReport(s)
    ELSE s

\* useEffect(..., [activeTab]), part_000:135-140: the effect runs after a
\* render in which activeTab differs from the render before.
afterRender(before, s) ==
    IF s.activeTab # before.activeTab THEN autoFetch(s) ELSE s

\* Expressions of the render that throw a TypeError: toLocaleString of an
\* undefined population_size (part_000:228, 546), dataSample.length of an
\* undefined sample (part_000:262), report.executive_summary.* of a report
\* body without that field (part_000:416).
renderThrows(s) ==
    \/ s.activeTab \in {"import", "config"} /\ s.config.population_size = UndefinedRows
    \/ s.activeTab = "import" /\ s.dataLoaded /\ Truthy(s.dataStats)
                              /\ s.dataSample = Undefined
    \/ s.activeTab = "reports" /\ Truthy(s.report)
                               /\ "executive_summary" \notin DOMAIN s.report

(***************************************************************************)
(* The click and change handlers.                                          *)
(***************************************************************************)
\* onClick of a sidebar entry, part_000:171
\* A sidebar that ignores clicks while a fetch is in progress.
selectTabBlocking(s, tab) ==
    IF disabled(s, tab) \/ s.loading \/ s.mcLoading \/ s.mlLoading \/ s.reportLoading
    THEN s ELSE [s EXCEPT !.activeTab = tab]

selectTab(s, tab) == IF disabled(s, tab) THEN s ELSE [s EXCEPT !.activeTab = tab]

\* "Proceed to Dashboard", part_000:280
proceedToDashboard(s) == [runSimulation(s, s.config) EXCEPT !.activeTab = "overview"]

\* runAll, part_000:142-146
\* A runAll that posts the default config instead of the current one.
runAllWithDefaults(s) ==
    LET cleared == [s EXCEPT !.mcData = Null, !.mlData = Null, !.report = Null,
                             !.data = <<>>]
    IN  [Forced(runSimulation(cleared, DEFAULT_CONFIG), "simulate")
            EXCEPT !.activeTab = "overview"]

runAll(s) ==
    LET cleared == [s EXCEPT !.mcData = Null, !.mlData = Null, !.report = Null,
                             !.data = <<>>]
    IN  [Forced(runSimulation(cleared, s.config), "simulate") EXCEPT !.activeTab = "overview"]

\* "Monte Carlo" of the config tab, part_000:515
configMonteCarlo(s) ==
    [Forced(runMonteCarlo([s EXCEPT !.mcData = Null]), "monte-carlo")
        EXCEPT !.activeTab = "solvency"]

\* "Generate Report" of the config tab, part_000:516
configReport(s) ==
    [Forced(runReport([s EXCEPT !.report = Null]), "report") EXCEPT !.activeTab = "reports"]

\* "Re-run Monte Carlo", part_000:343
rerunMonteCarlo(s) == Forced(runMonteCarlo([s EXCEPT !.mcData = Null]), "monte-carlo")

\* "Re-run Analysis", part_000:376
rerunML(s) == Forced(runML([s EXCEPT !.mlData = Null]), "ml")

\* "Regenerate", part_000:476
regenerateReport(s) == Forced(runReport([s EXCEPT !.report = Null]), "report")

\* onChange of a slider or select, part_000:490-506
\* A config edit that also drops the cached analyses.
setControlInvalidating(s, f, v) ==
    [s EXCEPT !.config = [@ EXCEPT ![f] = v],
              !.data = <<>>, !.mcData = Null, !.mlData = Null, !.report = Null]

setControl(s, f, v) == [s EXCEPT !.config = [@ EXCEPT ![f] = v]]

\* onClick of a preset, part_000:523-534
\* A preset that merges its overrides into the current config.
applyPresetMerging(s, p) ==
    [s EXCEPT !.config =
        CASE p = "Base Case" -> DEFAULT_CONFIG
          [] p = "Stress Test" -> [@ EXCEPT !.medical_inflation = 200, !.wage_inflation = 50]
          [] p = "Optimistic" ->
                [@ EXCEPT !.investment_return_rate = 150, !.admin_expense_pct = 20]
          [] p = "Long Term" -> [@ EXCEPT !.projection_years = 30, !.population_size = 5000]]

applyPreset(s, p) == [s EXCEPT !.config = Preset(p)]

(***************************************************************************)
(* History variables.                                                      *)
(***************************************************************************)
NoResponse == [t |-> "none"]
Event(ev, arg) ==
    [ev |-> ev, arg |-> arg, resp |-> NoResponse, superseded |-> FALSE, entered |-> FALSE]

NoScenario == [phase |-> "off", n |-> 0, years |-> 0]

\* Scenario A: fresh session, loadSample(n) answered with n rows, Overview
\* selected in the sidebar, the /simulate request answered with projections.
\* Before the import only tab selections and config changes keep the session
\* fresh; any event outside the scenario ends it.
scenarioStep(sc, ev, before) ==
    CASE sc.phase = "fresh" /\ ev.ev \in {"SelectTab", "SetControl", "ApplyPreset"} -> sc
      [] sc.phase = "fresh" /\ ev.ev = "ClickLoadSample" ->
            [sc EXCEPT !.phase = "loading", !.n = before.config.population_size]
      [] sc.phase = "loading" /\ ev.ev = "Settle" /\ ev.arg = "sample-data"
            /\ ev.resp.t = "http" /\ Rows(ev.resp.body) = sc.n ->
            [sc EXCEPT !.phase = "loaded"]
      [] sc.phase = "loaded" /\ ev.ev = "SelectTab" /\ ev.arg = "overview" ->
            [sc EXCEPT !.phase = "viewing"]
      [] sc.phase = "viewing" /\ ev.ev = "Settle" /\ ev.arg = "simulate"
            /\ ev.resp.t = "http" /\ "projections" \in DOMAIN ev.resp.body
            /\ Len(Field(ev.resp.body, "projections")) > 0 ->
            [sc EXCEPT !.phase = "done", !.years = Len(ev.resp.body.projections)]
      [] OTHER -> NoScenario

(***************************************************************************)
(* Steps.                                                                  *)
(***************************************************************************)
\* The state s is committed: rendered (which may throw) and recorded.
Commit(s, ev) ==
    /\ ~crashed
    /\ Outstanding(s) <= MaxInFlight
    /\ activeTab' = s.activeTab
    /\ config' = s.config
    /\ dataLoaded' = s.dataLoaded
    /\ dataStats' = s.dataStats
    /\ dataSample' = s.dataSample
    /\ data' = s.data
    /\ loading' = s.loading
    /\ error' = s.error
    /\ metrics' = s.metrics
    /\ mcData' = s.mcData
    /\ mcLoading' = s.mcLoading
    /\ mlData' = s.mlData
    /\ mlLoading' = s.mlLoading
    /\ report' = s.report
    /\ reportLoading' = s.reportLoading
    /\ net' = s.net
    /\ crashed' = renderThrows(s)
    /\ last' = [ev EXCEPT !.entered = (s.activeTab # activeTab)]
    /\ scen' = scenarioStep(scen, ev, Cur)
    /\ clicks' = IF ev.ev = "Settle" THEN clicks ELSE clicks + 1
    /\ clicks' <= budget
    /\ budget' = budget
    /\ chat' = chat

\* A handler's result is rendered and the effect of that render runs.
Handle(s, ev) == Commit(afterRender(Cur, s), ev)

SelectTab(tab) == Handle(selectTab(Cur, tab), Event("SelectTab", tab))

ClickLoadSample ==
    /\ activeTab = "import"
    /\ Handle(loadSampleData(Cur, config.population_size), Event("ClickLoadSample", ""))

ChooseFile(file) ==
    /\ activeTab = "import"
    /\ Handle(handleFileUpload(Cur, file), Event("ChooseFile", ""))

ClickProceed ==
    /\ activeTab = "import" /\ dataLoaded /\ Truthy(dataStats)
    /\ Handle(proceedToDashboard(Cur), Event("ClickProceed", ""))

DismissError ==
    /\ error # <<>>
    /\ Handle([Cur EXCEPT !.error = <<>>], Event("DismissError", ""))

ClickRerunMonteCarlo ==
    /\ activeTab = "solvency" /\ Truthy(mcData)
    /\ Handle(rerunMonteCarlo(Cur), Event("ClickRerun", "monte-carlo"))

ClickRerunML ==
    /\ activeTab = "risk" /\ Truthy(mlData)
    /\ Handle(rerunML(Cur), Event("ClickRerun", "ml"))

ClickRegenerate ==
    /\ activeTab = "reports" /\ Truthy(report)
    /\ Handle(regenerateReport(Cur), Event("ClickRerun", "report"))

SetControl(f, v) ==
    /\ activeTab = "config"
    /\ Handle(setControl(Cur, f, v), Event("SetControl", f))

ApplyPreset(p) ==
    /\ activeTab = "config"
    /\ Handle(applyPreset(Cur, p), Event("ApplyPreset", p))

ClickRunAll ==
    /\ activeTab = "config"
    /\ Handle(runAll(Cur), Event("ClickRunAll", ""))

ClickConfigMonteCarlo ==
    /\ activeTab = "config"
    /\ Handle(configMonteCarlo(Cur), Event("ClickConfigRun", "monte-carlo"))

ClickConfigReport ==
    /\ activeTab = "config"
    /\ Handle(configReport(Cur), Event("ClickConfigRun", "report"))

\* Request i of endpoint k leaves the net; if it was the re-fetch of a forced
\* refresh, the requests issued before it and still outstanding are from now
\* on superseded.
Deliver(s, k, i) ==
    [s EXCEPT !.net[k] =
        [j \in 1..(Len(@) - 1) |->
            IF j < i
            THEN [@[j] EXCEPT !.superseded = @ \/ s.net[k][i].forced]
            ELSE @[j + 1]]]

\* The response to request i of endpoint k arrives.
Settle(k, i, resp) ==
    Handle(settle(Deliver(Cur, k, i), k, resp),
           [ev |-> "Settle", arg |-> k, resp |-> resp,
            superseded |-> net[k][i].superseded, entered |-> FALSE])

\* The freshly mounted page; a run handles at most b user events.
Start(b) ==
    /\ activeTab = InitialState.activeTab
    /\ config = InitialState.config
    /\ dataLoaded = InitialState.dataLoaded
    /\ dataStats = InitialState.dataStats
    /\ dataSample = InitialState.dataSample
    /\ data = InitialState.data
    /\ loading = InitialState.loading
    /\ error = InitialState.error
    /\ metrics = InitialState.metrics
    /\ mcData = InitialState.mcData
    /\ mcLoading = InitialState.mcLoading
    /\ mlData = InitialState.mlData
    /\ mlLoading = InitialState.mlLoading
    /\ report = InitialState.report
    /\ reportLoading = InitialState.reportLoading
    /\ net = InitialState.net
    /\ crashed = FALSE
    /\ last = Event("Mount", "")
    /\ scen = [phase |-> "fresh", n |-> 0, years |-> 0]
    /\ clicks = 0
    /\ budget = b
    /\ chat = ChatInitial

Init == Start(MaxClicks)

Next ==
    \/ \E tab \in TabIds : SelectTab(tab)
    \/ ClickLoadSample
    \/ \E file \in {<<>>, <<"population.csv">>} : ChooseFile(file)
    \/ ClickProceed
    \/ DismissError
    \/ ClickRerunMonteCarlo
    \/ ClickRerunML
    \/ ClickRegenerate
    \/ \E f \in ControlFields : \E v \in ControlChoices(f) : SetControl(f, v)
    \/ \E p \in PresetNames : ApplyPreset(p)
    \/ ClickRunAll
    \/ ClickConfigMonteCarlo
    \/ ClickConfigReport
    \/ \E k \in Endpoints : \E i \in 1..Len(net[k]) :
            \E resp \in Responses(k, net[k][i]) : Settle(k, i, resp)

Spec == Init /\ [][Next]_vars

\* Some outstanding request of endpoint k is answered.
SettleSome(k) ==
    \E i \in 1..Len(net[k]) : \E resp \in Responses(k, net[k][i]) : Settle(k, i, resp)

\* The page under the assumption that every remote call eventually settles:
\* the promise of an awaited fetch resolves or rejects, and the continuation
\* then runs.
InitLive == Start(MaxLiveClicks)

SpecLive ==
    InitLive /\ [][Next]_vars /\ \A k \in Endpoints : WF_vars(SettleSome(k))

\* Scenario A alone: only the events the scenario is made of (selecting tabs,
\* choosing the sample size in the config, "Use Sample Data", responses).
InitScenario == Start(MaxScenarioClicks)

NextScenario ==
    \/ \E tab \in TabIds : SelectTab(tab)
    \/ ClickLoadSample
    \/ \E v \in ControlChoices("population_size") : SetControl("population_size", v)
    \/ \E p \in PresetNames : ApplyPreset(p)
    \/ \E k \in Endpoints : \E i \in 1..Len(net[k]) :
            \E resp \in Responses(k, net[k][i]) : Settle(k, i, resp)

SpecScenario == InitScenario /\ [][NextScenario]_vars


(***************************************************************************)
(* The chat while the Actuary view is open.  The dashboard around it is    *)
(* the one reached by loading the sample data and selecting the Actuary    *)
(* view, and stays as it is.                                               *)
(***************************************************************************)
ChatOpened ==
    LET asked == loadSampleData(InitialState, DEFAULT_CONFIG.population_size)
        loaded == settle(Deliver(asked, "sample-data", 1), "sample-data",
                         Http(TRUE, DatasetBody(1, DEFAULT_CONFIG.population_size)))
    IN  afterRender(loaded, selectTab(loaded, "actuary"))

InitChat ==
    /\ activeTab = ChatOpened.activeTab
    /\ config = ChatOpened.config
    /\ dataLoaded = ChatOpened.dataLoaded
    /\ dataStats = ChatOpened.dataStats
    /\ dataSample = ChatOpened.dataSample
    /\ data = ChatOpened.data
    /\ loading = ChatOpened.loading
    /\ error = ChatOpened.error
    /\ metrics = ChatOpened.metrics
    /\ mcData = ChatOpened.mcData
    /\ mcLoading = ChatOpened.mcLoading
    /\ mlData = ChatOpened.mlData
    /\ mlLoading = ChatOpened.mlLoading
    /\ report = ChatOpened.report
    /\ reportLoading = ChatOpened.reportLoading
    /\ net = ChatOpened.net
    /\ crashed = renderThrows(ChatOpened)
    /\ last = [Event("SelectTab", "actuary") EXCEPT !.entered = TRUE]
    /\ scen = NoScenario
    /\ clicks = 2
    /\ budget = MaxClicks
    /\ chat = ChatInitial

\* A chat event: the dashboard's state is not touched.
ChatCommit(c, ev) ==
    /\ activeTab = "actuary" /\ ~crashed
    /\ Len(c.net) <= MaxInFlight
    /\ Len(c.messages) + Len(c.net) <= MaxChatMessages
    /\ chat' = c
    /\ last' = ev
    /\ UNCHANGED <<activeTab, config, dataLoaded, dataStats, dataSample, data,
                   loading, error, metrics, mcData, mcLoading, mlData, mlLoading,
                   report, reportLoading, net, crashed, scen, clicks, budget>>

\* onChange of the input, tailwind.config.js:87
ChangeInput(text) ==
    ChatCommit([chat EXCEPT !.input = text], Event("ChangeInput", ""))

\* The send button or the Enter key, tailwind.config.js:88, 92
AskAI == ChatCommit(askAI(chat), Event("AskAI", ""))

\* The answer to the i-th outstanding /ask-ai call arrives.
SettleAskAI(i, resp) ==
    ChatCommit(settleAskAI(chat, i, resp),
               [Event("SettleAskAI", "") EXCEPT !.resp = resp])

NextChat ==
    \/ \E text \in Inputs : ChangeInput(text)
    \/ AskAI
    \/ \E i \in 1..Len(chat.net) : \E resp \in AskAiResponses : SettleAskAI(i, resp)

SpecChat == InitChat /\ [][NextChat]_vars

(***************************************************************************)
(* Properties of the dashboard                                             *)
(***************************************************************************)

\* The views the sidebar offers only once a dataset is loaded.
GatedTabs == TabIds \ {"import", "config"}

\* The cached payload of an analysis kind.
PayloadOf(k) ==
    CASE k = "simulate" -> data
      [] k = "monte-carlo" -> mcData
      [] k = "ml" -> mlData
      [] k = "report" -> report

\* The payload of an analysis kind nothing has been fetched for.
IdlePayload(k) == IF k = "simulate" THEN <<>> ELSE Null

\* The view's analysis payload is present.
CachedView(tab) ==
    \/ tab = "overview" /\ Len(data) > 0
    \/ tab = "solvency" /\ Truthy(mcData)
    \/ tab = "risk" /\ Truthy(mlData)
    \/ tab = "reports" /\ Truthy(report)

\* C1: selecting a gated view in the sidebar while no dataset is loaded is
\* rejected: the active view after the step is the active view before it.
C1_GatedSelectionRejected ==
    [][(last'.ev = "SelectTab" /\ last'.arg \in GatedTabs /\ ~dataLoaded)
         => activeTab' = activeTab]_vars

\* A gated view was just selected with no dataset, and the page is elsewhere.
C1_Witness ==
    /\ last.ev = "SelectTab" /\ last.arg \in GatedTabs
    /\ ~dataLoaded /\ ~last.entered /\ activeTab # last.arg

\* C2: whenever the active view is a gated view, a dataset is loaded.
C2_GatedViewNeedsDataset == activeTab \in GatedTabs => dataLoaded

\* C3: no analysis request (simulate, monte-carlo, ml, report) is issued
\* while no dataset is loaded.
C3_NoAnalysisRequestBeforeDataset ==
    [][\A k \in AnalysisKinds : Len(net'[k]) > Len(net[k]) => dataLoaded]_vars

\* C4: entering a view while a request of an analysis kind is still
\* outstanding issues no further request of that kind.
C4_NoFetchWhileLoading ==
    [][\A k \in AnalysisKinds :
          (last'.ev = "SelectTab" /\ Len(net[k]) > 0) => net'[k] = net[k]]_vars

\* C5: the response of a request that a forced refresh has superseded (the
\* refresh's own request was answered first) is discarded: the cached
\* payload of its kind stays what it was.
C5_SupersededResponseDiscarded ==
    [][\A k \in AnalysisKinds :
          (last'.ev = "Settle" /\ last'.arg = k /\ last'.superseded)
             => PayloadOf(k)' = PayloadOf(k)]_vars

\* C6: selecting a view whose analysis payload is already cached issues no
\* request.
C6_CachedViewFetchesNothing ==
    [][\A tab \in TabIds :
          (last'.ev = "SelectTab" /\ last'.arg = tab /\ CachedView(tab))
             => net' = net]_vars

\* Overview was entered again with its projection cached; nothing is in flight.
C6_Witness ==
    /\ last.ev = "SelectTab" /\ last.arg = "overview" /\ last.entered
    /\ activeTab = "overview" /\ Len(data) > 0
    /\ \A k \in Endpoints : net[k] = <<>>

\* C7: in scenario A, for the sample size n chosen, after loadSample(n) is
\* answered with n rows the dataset is loaded with population size n; once
\* Overview is selected exactly one /simulate request is outstanding and its
\* body carries population size n; once that request is answered with
\* projections the chart holds one entry per projected year and no /simulate
\* request is outstanding.
C7_ScenarioA ==
    /\ scen.phase = "loaded" =>
          dataLoaded /\ config.population_size = scen.n /\ net["simulate"] = <<>>
    /\ scen.phase = "viewing" =>
          /\ activeTab = "overview" /\ loading
          /\ Len(net["simulate"]) = 1
          /\ net["simulate"][1].body.population_size = scen.n
    /\ scen.phase = "done" =>
          /\ activeTab = "overview" /\ ~loading
          /\ net["simulate"] = <<>>
          /\ Len(data) = scen.years /\ scen.years > 0

\* Scenario A ran to its end with a sample size other than the default one.
C7_Witness ==
    /\ scen.phase = "done" /\ scen.n # DEFAULT_CONFIG.population_size
    /\ activeTab = "overview" /\ Len(data) = scen.years

\* C8: when a dataset import (sample or upload) succeeds, every analysis
\* cache is empty afterwards.
C8_ImportResetsCaches ==
    [][(/\ last'.ev = "Settle" /\ last'.arg \in ImportKinds
        /\ last'.resp.t = "http" /\ last'.resp.ok)
         => \A k \in AnalysisKinds : PayloadOf(k)' = IdlePayload(k)]_vars

\* C9: a failed loadSample (transport failure or non-success response)
\* leaves the dataset and the population size as they were and surfaces an
\* error.
C9_SampleFailureLeavesDataset ==
    [][(/\ last'.ev = "Settle" /\ last'.arg = "sample-data"
        /\ (last'.resp.t = "neterr" \/ ~last'.resp.ok))
         => /\ dataLoaded' = dataLoaded
            /\ dataStats' = dataStats
            /\ dataSample' = dataSample
            /\ config' = config
            /\ error' # <<>>]_vars

\* C10: an upload rejected with the body {detail: d} sets the error to d and
\* leaves loaded, summary, preview and the config (population size) as they
\* were.
C10_UploadRejectionSurfacesDetail ==
    [][\A d \in Details :
          (/\ last'.ev = "Settle" /\ last'.arg = "upload"
           /\ last'.resp = Http(FALSE, ErrorBody(d)))
             => /\ error' = <<d>>
                /\ dataLoaded' = dataLoaded
                /\ dataStats' = dataStats
                /\ dataSample' = dataSample
                /\ config' = config]_vars

\* An upload on the fresh page was just rejected with a detail: the detail is
\* the error, no dataset is loaded and every gated view stays disabled.
C10_Witness ==
    /\ last.ev = "Settle" /\ last.arg = "upload"
    /\ \E d \in Details : last.resp = Http(FALSE, ErrorBody(d)) /\ error = <<d>>
    /\ ~dataLoaded /\ dataStats = Null /\ config = DEFAULT_CONFIG
    /\ \A tab \in GatedTabs : disabled(Cur, tab)

\* An import (sample or upload) was answered with success and a dataset body.
ImportSucceeded(ev) ==
    /\ ev.ev = "Settle" /\ ev.arg \in ImportKinds
    /\ ev.resp.t = "http" /\ ev.resp.ok /\ "rows" \in DOMAIN ev.resp.body

\* C11: after a successful import answered with {rows, statistics, sample}
\* the dataset is loaded, the stored summary and preview are the response's
\* statistics and sample, and the config is the config before with
\* population_size = rows.
C11_ImportStoresDataset ==
    [][ImportSucceeded(last')
         => /\ dataLoaded'
            /\ dataStats' = last'.resp.body.statistics
            /\ dataSample' = last'.resp.body.sample
            /\ config' = [config EXCEPT !.population_size = last'.resp.body.rows]]_vars

\* An import just succeeded on a config the operator had edited: the edit is
\* kept and the population size is the row count.
C11_Witness ==
    /\ ImportSucceeded(last) /\ dataLoaded
    /\ dataStats = last.resp.body.statistics /\ dataSample = last.resp.body.sample
    /\ config.population_size = last.resp.body.rows
    /\ config.population_size # DEFAULT_CONFIG.population_size
    /\ config.wage_inflation # DEFAULT_CONFIG.wage_inflation

\* The loading flag of an analysis kind.
LoadingFlag(k) ==
    CASE k = "simulate" -> loading
      [] k = "monte-carlo" -> mcLoading
      [] k = "ml" -> mlLoading
      [] k = "report" -> reportLoading

\* C12: immediately after runAll the stochastic simulation, risk
\* segmentation and report caches are idle (no payload, nothing loading),
\* the projection is cleared with its fetch in progress, and the active view
\* is Overview.
C12_RunAllPostState ==
    last.ev = "ClickRunAll" =>
        /\ \A k \in AnalysisKinds \ {"simulate"} :
              PayloadOf(k) = IdlePayload(k) /\ ~LoadingFlag(k)
        /\ data = <<>> /\ loading /\ Len(net["simulate"]) >= 1
        /\ activeTab = "overview"

\* C13: every /simulate request carries the config that is current when the
\* fetch is started; runAll right after the "Stress Test" preset posts
\* medical inflation 0.20 and wage inflation 0.05; a config edit leaves the
\* outstanding requests as they were sent.
C13_SimulateSendsCurrentConfig ==
    [][LET old == net["simulate"]
           new == net'["simulate"]
           Issued == {i \in 1..Len(new) : i > Len(old)}
       IN  /\ \A i \in Issued : new[i].body = config
           /\ (last'.ev = "ClickRunAll" /\ last.ev = "ApplyPreset"
                   /\ last.arg = "Stress Test")
                 => /\ Issued # {}
                    /\ \A i \in Issued :
                          /\ new[i].body.medical_inflation = 200
                          /\ new[i].body.wage_inflation = 50
           /\ last'.ev \in {"SetControl", "ApplyPreset"} => net' = net]_vars

\* Scenario C: with a dataset loaded, runAll was clicked on the "Stress Test"
\* preset and the requests outstanding carry the stress parameters.
C13_Witness ==
    /\ dataLoaded /\ last.ev = "ClickRunAll" /\ activeTab = "overview"
    /\ config = Preset("Stress Test")
    /\ net["simulate"] # <<>>
    /\ \A i \in 1..Len(net["simulate"]) :
          /\ net["simulate"][i].body.medical_inflation = 200
          /\ net["simulate"][i].body.wage_inflation = 50

\* C14: a config change (slider, select or preset) issues no request and
\* leaves the payload and loading flag of the four analysis kinds, the
\* error, the derived metrics, the active view and the dataset as they were.
C14_ConfigChangeFrame ==
    [][last'.ev \in {"SetControl", "ApplyPreset"}
         => /\ net' = net
            /\ \A k \in AnalysisKinds :
                  PayloadOf(k)' = PayloadOf(k) /\ LoadingFlag(k)' = LoadingFlag(k)
            /\ error' = error /\ metrics' = metrics
            /\ activeTab' = activeTab
            /\ dataLoaded' = dataLoaded
            /\ dataStats' = dataStats /\ dataSample' = dataSample]_vars

\* A control was just moved while an analysis payload was cached: the
\* config changed and the payload is still there.
C14_Witness ==
    /\ last.ev = "SetControl" /\ config # DEFAULT_CONFIG
    /\ Truthy(mcData) /\ "statistics" \in DOMAIN mcData
    /\ activeTab = "config"

\* Configs a preset may be applied on, besides the current one: the
\* defaults, each preset and each single edit of the defaults.
PriorConfigs ==
    {DEFAULT_CONFIG}
    \cup {Preset(q) : q \in PresetNames}
    \cup UNION {{[DEFAULT_CONFIG EXCEPT ![f] = v] : v \in ControlChoices(f)} :
                   f \in ControlFields}

\* C15: a preset yields the same complete config whatever the config
\* before (population size included): from the current config and from each
\* of PriorConfigs the result is the same, applying it twice equals applying
\* it once, and after a preset button is clicked the config is that preset.
C15_PresetsIgnorePriorState ==
    /\ last.ev = "ApplyPreset" => config = Preset(last.arg)
    /\ \A p \in PresetNames :
          /\ \A c \in PriorConfigs :
                applyPreset([Cur EXCEPT !.config = c], p).config
                    = applyPreset(Cur, p).config
          /\ applyPreset(applyPreset(Cur, p), p) = applyPreset(Cur, p)

\* "Stress Test" was just applied with a dataset loaded (whose import had
\* set the population size): the config is the Stress Test literal.
C15_Witness ==
    /\ last.ev = "ApplyPreset" /\ last.arg = "Stress Test"
    /\ dataLoaded /\ config = Preset("Stress Test")

\* C16: a config set whose value for a field lies outside what the field
\* admits (a rate outside [min, max], a projection period or population
\* size that is not one of the choices) is rejected: no step stores such a
\* value in a config field.
C16_InvalidSetRejected ==
    [][\A f \in ControlFields :
          config'[f] # config[f] => config'[f] \in ControlDomain(f)]_vars

\* The messages the failure of a fetch of each analysis kind records
\* (part_000:97, 109, 118, 130).
FailureMessages(k) ==
    CASE k = "simulate" -> {MapOfUndefinedMessage, LastOfEmptyMessage}
      [] k = "monte-carlo" -> {"Monte Carlo failed"}
      [] k = "ml" -> {"ML failed"}
      [] k = "report" -> {"Report failed"}

\* C17: the status of an analysis kind is well defined: it is Ready exactly
\* when a payload is stored and Failed exactly when an error is recorded for
\* it, so no kind has a payload stored while an error is recorded for it
\* (after a failed fetch followed by a successful one no error remains).
C17_PayloadExcludesError ==
    \A k \in AnalysisKinds :
        ~(/\ PayloadOf(k) # IdlePayload(k)
          /\ error # <<>>
          /\ error[1] \in FailureMessages(k))

\* The remote call failed: the fetch was rejected (transport failure) or the
\* service answered with a non-success status.
CallFailed(resp) == resp.t = "neterr" \/ ~resp.ok

\* C18: a failed analysis fetch (network or service failure) leaves the
\* payload that is stored for its kind when the response arrives, and the
\* payloads of the other kinds, as they were.
C18_FailureKeepsPayload ==
    [][\A k \in AnalysisKinds :
          (/\ last'.ev = "Settle" /\ last'.arg = k /\ CallFailed(last'.resp)
           /\ PayloadOf(k) # IdlePayload(k))
             => \A j \in AnalysisKinds : PayloadOf(j)' = PayloadOf(j)]_vars

\* C19: a non-success response to an analysis request is not stored as the
\* kind's payload and the error surfaced is the detail the service gave; a
\* transport failure surfaces an error and stores nothing.
C19_RejectionSurfacesDetail ==
    [][\A k \in AnalysisKinds :
          (last'.ev = "Settle" /\ last'.arg = k /\ CallFailed(last'.resp))
             => /\ PayloadOf(k)' = PayloadOf(k)
                /\ error' # <<>>
                /\ (last'.resp.t = "http" /\ "detail" \in DOMAIN last'.resp.body)
                      => error' = <<last'.resp.body.detail>>]_vars

\* C20: the failure of a remote call (analysis fetch or dataset import)
\* leaves the active view and the dataset's loaded flag as they were.
C20_FailureKeepsViewAndGate ==
    [][(last'.ev = "Settle" /\ CallFailed(last'.resp))
         => activeTab' = activeTab /\ dataLoaded' = dataLoaded]_vars

\* C21: no automatic retry: the step that delivers a response (a failure
\* included) issues no request, so the requests outstanding afterwards are
\* those before less the one answered; a further request needs a user event.
C21_NoAutomaticRetry ==
    [][last'.ev = "Settle"
         => \A k \in Endpoints :
              Len(net'[k]) = Len(net[k]) - (IF k = last'.arg THEN 1 ELSE 0)]_vars

\* A Monte Carlo fetch just failed on the Solvency view with a dataset
\* loaded and the cache still empty, and nothing is in flight.
C21_Witness ==
    /\ last.ev = "Settle" /\ last.arg = "monte-carlo" /\ CallFailed(last.resp)
    /\ error = <<"Monte Carlo failed">>
    /\ activeTab = "solvency" /\ dataLoaded /\ mcData = Null
    /\ \A k \in Endpoints : net[k] = <<>>

\* C22: nothing blocks on an outstanding request: a sidebar selection of an
\* enabled view takes effect, a config edit or preset takes effect, and a
\* response with a payload populates its cache, whichever view is active and
\* whatever else is outstanding.
C22_NonBlocking ==
    /\ (last.ev = "SelectTab" /\ ~disabled(Cur, last.arg)) => activeTab = last.arg
    /\ last.ev = "ApplyPreset" => config = Preset(last.arg)
    /\ last.ev = "SetControl" => config[last.arg] \in ControlChoices(last.arg)
    /\ (last.ev = "Settle" /\ last.arg \in AnalysisKinds /\ JsonOf(last.resp) # <<>>)
          => CASE last.arg = "simulate" ->
                    "projections" \in DOMAIN last.resp.body
                        => data = ChartSeries(last.resp.body.projections)
               [] OTHER -> PayloadOf(last.arg) = last.resp.body

\* The projection was answered while the operator, having left Overview for
\* Config and moved a control, was on the Config view: the chart is filled.
C22_Witness ==
    /\ last.ev = "Settle" /\ last.arg = "simulate"
    /\ activeTab = "config" /\ config # DEFAULT_CONFIG
    /\ dataLoaded /\ Len(data) > 0 /\ ~loading

\* C23: one user action starts at most one request per analysis kind.
C23_OneRequestPerAction ==
    [][\A k \in AnalysisKinds : Len(net'[k]) <= Len(net[k]) + 1]_vars

\* C24: for each analysis kind the loading flag is true in exactly the
\* states where a request of that kind is outstanding.
C24_LoadingIffOutstanding ==
    \A k \in AnalysisKinds : LoadingFlag(k) <=> net[k] # <<>>

\* The error recorded for analysis kind k: the content of the error slot when
\* it holds a message of k's catch block.
ErrorOf(k) ==
    IF error # <<>> /\ error[1] \in FailureMessages(k) THEN error ELSE <<>>

\* The step starts (on entering a view) or settles a fetch of kind k.
StartsOrSettles(k) ==
    \/ last'.ev = "Settle" /\ last'.arg = k
    \/ last'.ev = "SelectTab" /\ Len(net'[k]) > Len(net[k])

\* C25: starting or settling a fetch of one analysis kind changes neither
\* the payload, nor the loading flag, nor the recorded error of another kind.
C25_KindsIndependent ==
    [][\A k \in AnalysisKinds :
          StartsOrSettles(k)
            => \A j \in AnalysisKinds \ {k} :
                 /\ PayloadOf(j)' = PayloadOf(j)
                 /\ LoadingFlag(j)' = LoadingFlag(j)
                 /\ ErrorOf(j)' = ErrorOf(j)]_vars

\* The analysis kind a view displays; "" for a view that displays none.
KindOfView(tab) ==
    CASE tab = "overview" -> "simulate"
      [] tab = "solvency" -> "monte-carlo"
      [] tab = "risk" -> "ml"
      [] tab = "reports" -> "report"
      [] OTHER -> ""

\* C26: entering Overview, Solvency, Risk or Reports with the dataset loaded
\* and the view's cache empty issues one request of the view's kind and no
\* other request; entering Import, Config or Actuary issues no request.
C26_ViewToKind ==
    [][(last'.ev = "SelectTab" /\ last'.entered)
          => IF KindOfView(last'.arg) = ""
             THEN net' = net
             ELSE (dataLoaded /\ ~CachedView(last'.arg))
                    => \A k \in Endpoints :
                         Len(net'[k]) = Len(net[k])
                            + (IF k = KindOfView(last'.arg) THEN 1 ELSE 0)]_vars

C26_Witness ==
    /\ last.ev = "SelectTab" /\ last.arg = "risk" /\ last.entered
    /\ dataLoaded /\ mlData = Null /\ mlLoading
    /\ Len(net["ml"]) = 1
    /\ \A k \in Endpoints \ {"ml"} : net[k] = <<>>

\* The /monte-carlo requests the step issues.
NewMonteCarloRequests ==
    {net'["monte-carlo"][i].body :
        i \in (Len(net["monte-carlo"]) + 1)..Len(net'["monte-carlo"])}

\* C27 (as stated): every /monte-carlo request carries the config current
\* when it is issued, its population size included.
C27_MonteCarloSendsConfig ==
    [][\A body \in NewMonteCarloRequests : body = config']_vars

\* C27 (amended): every /monte-carlo request carries the config current
\* when it is issued, with the population size replaced by 500.
C27_MonteCarloSendsConfigOf500 ==
    [][\A body \in NewMonteCarloRequests :
          body = [config' EXCEPT !.population_size = 500]]_vars

C27_Witness ==
    /\ last.ev = "SelectTab" /\ last.arg = "solvency" /\ last.entered
    /\ Len(net["monte-carlo"]) = 1
    /\ config.population_size = 1000
    /\ config.wage_inflation # DEFAULT_CONFIG.wage_inflation
    /\ net["monte-carlo"][1].body.population_size = 500
    /\ net["monte-carlo"][1].body.wage_inflation = config.wage_inflation

\* The rate fields of the config, kept in thousandths.
RateFields ==
    {"wage_inflation", "medical_inflation", "investment_return_rate",
     "admin_expense_pct"}

\* C28: in every reachable state the four rates are non-negative fractions
\* and the population size is a positive integer.
C28_ScenarioConfigInvariant ==
    /\ \A f \in RateFields : config[f] \in 0..1000
    /\ config.population_size \in Nat \ {0}

\* The stored summary and preview are the statistics and the sample of one
\* import response.
FromOneImport ==
    \E i \in PayloadIds : dataStats = Statistics(i) /\ dataSample = SampleRows(i)

\* C29: the dataset is replaced wholesale: the summary and the preview of a
\* loaded dataset come from one successful import, and the row count, the
\* summary and the preview change only when an import succeeds.
C29_DatasetReplacedWholesale ==
    [][/\ dataLoaded' => FromOneImport'
       /\ (dataStats' # dataStats \/ dataSample' # dataSample)
             => ImportSucceeded(last')
       /\ (dataLoaded /\ config'.population_size # config.population_size)
             => ImportSucceeded(last')]_vars

\* C30: once the dataset is loaded it stays loaded: no step sets dataLoaded
\* back to false.
C30_LoadedIsMonotone ==
    [][dataLoaded => dataLoaded']_vars

C30_Witness ==
    /\ dataLoaded /\ FromOneImport
    /\ last.ev = "Settle" /\ last.arg \in ImportKinds /\ last.resp = NetErr
    /\ error # <<>>

\* The chart series and the KPI metrics are those of one /simulate response
\* with projections p.
ProjectionOf(p) ==
    /\ data = ChartSeries(p)
    /\ metrics = MetricsOf(p[Len(p)])

\* C31: the chart series and the KPI metrics are either both at their
\* initial values or both derived from the same /simulate response.
C31_ProjectionAtomic ==
    \/ data = <<>> /\ metrics = InitialMetrics
    \/ \E p \in {ProjectionsA, ProjectionsB} : ProjectionOf(p)

\* A /simulate response with a non-empty projections sequence was processed.
SimulateSucceeded(ev) ==
    /\ ev.ev = "Settle" /\ ev.arg = "simulate"
    /\ ev.resp.t = "http" /\ ev.resp.ok
    /\ "projections" \in DOMAIN ev.resp.body
    /\ Len(ev.resp.body.projections) > 0

\* C32: after a successful /simulate response with a non-empty projections
\* sequence the stored series has the length and the order of the response,
\* entry i carrying revenue, expenditure and reserve of response entry i,
\* and riskCount is the number of risk flags of the last response entry.
C32_SeriesMirrorsResponse ==
    SimulateSucceeded(last)
      => LET projections == last.resp.body.projections
         IN  /\ Len(data) = Len(projections)
             /\ \A i \in 1..Len(projections) :
                   /\ data[i].revenue = projections[i].Total_Revenue
                   /\ data[i].expenditure = projections[i].Total_Expenditure
                   /\ data[i].reserve = projections[i].Reserve_Fund
             /\ metrics.riskCount
                   = Len(projections[Len(projections)].Risk_Flags)

C32_Witness ==
    /\ SimulateSucceeded(last)
    /\ last.resp.body.projections = ProjectionsA
    /\ Len(data) = 2 /\ data[1].reserve = 125 /\ data[2].reserve = 35
    /\ metrics.riskCount = 2

\* C33: if every remote call eventually settles, a loading flag that is set
\* is eventually false again, whatever the outcome of the call.
C33_LoadingEventuallyFalse ==
    \A k \in AnalysisKinds : LoadingFlag(k) ~> ~LoadingFlag(k)

\* The /ask-ai call was answered with a success status and a JSON body.
AskAiSucceeded(resp) == resp.t = "http" /\ resp.ok /\ resp.body # NonJson

\* C34: askAI with an empty or blank input changes nothing and issues no
\* request; otherwise the user's message is appended at once; when the call
\* settles exactly one AI message is appended, the service's response on
\* success and the fixed connectivity error on failure; no message of the
\* log is removed or reordered.
C34_ChatLog ==
    [][/\ last'.ev = "AskAI"
          => IF Trim(chat.input) = <<>>
             THEN chat' = chat
             ELSE /\ chat'.messages
                       = Append(chat.messages, [role |-> "user", text |-> Str(chat.input)])
                  /\ Len(chat'.net) = Len(chat.net) + 1
       /\ last'.ev = "SettleAskAI"
          => /\ chat'.messages
                  = Append(chat.messages,
                           [role |-> "ai",
                            text |-> IF AskAiSucceeded(last'.resp)
                                     THEN last'.resp.body.response
                                     ELSE ConnectivityError])
             /\ Len(chat'.net) = Len(chat.net) - 1
       /\ Len(chat'.messages) >= Len(chat.messages)
       /\ SubSeq(chat'.messages, 1, Len(chat.messages)) = chat.messages]_vars
====
